---- MODULE Spec2Model ----
(***************************************************************************)
(* registry_sync.py and registry_tag_dump.py: a main thread that loads a   *)
(* configuration, starts a pool of daemon worker threads and feeds them    *)
(* one Job per configured image through a Queue; each worker runs skopeo   *)
(* (inspect, optional retag, two copies) and acknowledges the Job with     *)
(* task_done; main waits on Queue.join.                                    *)
(***************************************************************************)
EXTENDS Integers, Sequences, FiniteSets, TLC

\* ---------------------------------------------------------------- bounds
MaxImages  == 2     \* longest container_images list explored
MaxThreads == 2     \* largest --threads value explored

Workers == 1..MaxThreads

\* ------------------------------------------------- registries (environment)
\* Text is modelled as a sequence of pieces and + as \o.  A repository is
\* <<registry, path>>, a tag is <<"latest">> or <<version, release>> (the
\* text version + "-" + release), a reference is repository + ":" + tag.
Ref(repo, tag) == [repo |-> repo, tag |-> tag]

Absent == "absent"

\* What `skopeo inspect` prints for each image digest held by the source
\* registry: Name, Digest and Labels (name, version, release).  sha_app1r is
\* a rebuild of ns/app 1.0-1: the same labels, another digest.
ImageInfoOf(digest) ==
    CASE digest = "sha_app1" ->
           [Name |-> <<"src.io/", "ns/app">>, Digest |-> "sha_app1",
            Labels |-> [name |-> <<"ns/app">>, version |-> "1.0", release |-> "1"]]
      [] digest = "sha_app1r" ->
           [Name |-> <<"src.io/", "ns/app">>, Digest |-> "sha_app1r",
            Labels |-> [name |-> <<"ns/app">>, version |-> "1.0", release |-> "1"]]
      [] digest = "sha_app2" ->
           [Name |-> <<"src.io/", "ns/app">>, Digest |-> "sha_app2",
            Labels |-> [name |-> <<"ns/app">>, version |-> "2.0", release |-> "1"]]
      [] digest = "sha_db1" ->
           [Name |-> <<"src.io/", "ns/db">>, Digest |-> "sha_db1",
            Labels |-> [name |-> <<"ns/db">>, version |-> "1.0", release |-> "1"]]

NoInfo == [Name |-> <<>>, Digest |-> "",
           Labels |-> [name |-> <<>>, version |-> "", release |-> ""]]

\* container_images entries (imagename) the configurations are built from.
ImgApp1 == Ref(<<"src.io/", "ns/app">>, <<"v1">>)
ImgApp2 == Ref(<<"src.io/", "ns/app">>, <<"v2">>)
ImgDb   == Ref(<<"src.io/", "ns/db">>, <<"latest">>)

\* The source registry: the tags the configurations name and the
\* version-release tags of the same images.
SourceBefore ==
    [r \in {ImgApp1, Ref(<<"src.io/", "ns/app">>, <<"1.0", "1">>),
            ImgApp2, Ref(<<"src.io/", "ns/app">>, <<"2.0", "1">>),
            ImgDb,   Ref(<<"src.io/", "ns/db">>, <<"1.0", "1">>)} |->
        CASE r.repo = <<"src.io/", "ns/db">> -> "sha_db1"
          [] r.repo # <<"src.io/", "ns/db">> /\ r.tag \in {<<"v1">>, <<"1.0", "1">>}
               -> "sha_app1"
          [] OTHER -> "sha_app2"]

\* Two families of configuration files: one whose first two images share a
\* destination repository, one whose first two do not.
ImageLists == {<<ImgApp1, ImgApp2, ImgDb, ImgApp1>>, <<ImgDb, ImgApp1, ImgApp2, ImgDb>>}

\* config["destination_registry_namespace"], ["destination_image_tag"],
\* ["tag_to_rename"]
DestinationNamespace == <<"dst.io/">>
DestinationImageTag  == <<"latest">>
TagToRename          == <<"previous">>

DestRefs ==
    {Ref(DestinationNamespace \o p, t) :
        p \in {<<"ns/app">>, <<"ns/db">>},
        t \in {<<"latest">>, <<"previous">>, <<"1.0", "1">>, <<"2.0", "1">>}}

\* The destination registry before the run: every repository already holds
\* an earlier image under the destination tag.
DestinationBefore ==
    [r \in DestRefs |-> IF r.tag = DestinationImageTag THEN "sha_old" ELSE Absent]

\* ------------------------------------------------------------------ state
VARIABLES
    prog,             \* "sync" (registry_sync.py) or "dump" (registry_tag_dump.py)
    args,             \* parse_args(): threads, no_modify, tag
    config,           \* the configuration file's content
    load_result,      \* load_config: "ok", "IOError", "YAMLError", "OtherError"
    pcMain,           \* position of the main thread
    exit_status,      \* "running", "status0" or "status1"
    started,          \* number of worker threads started
    put_count,        \* number of sync_queue.put calls made
    sync_queue,       \* Queue.queue: jobs (indices into container_images)
    unfinished_tasks, \* Queue.unfinished_tasks
    out_queue,        \* the result collector
    pcW,              \* position of each worker thread
    job,              \* the Job each worker holds (0: none)
    image_info,       \* each worker's image_info local
    source,           \* source registry: reference -> digest
    pushed,           \* the source registry's owner has re-pushed a tag during the run
    dest,             \* destination registry: reference -> digest
    calls,            \* per job, the skopeo invocations made for it, in order
    gets,             \* per job, number of times it was returned by get()
    dones,            \* per job, number of task_done calls made for it
    any_failed,       \* some skopeo invocation has exited non-zero
    export_list       \* the list written by write_image_list (<<>> if none)

vars == <<prog, args, config, load_result, pcMain, exit_status, started,
          put_count, sync_queue, unfinished_tasks, out_queue, pcW, job,
          image_info, source, pushed, dest, calls, gets, dones, any_failed,
          export_list>>

N == Len(config.container_images)
Jobs == 1..N

\* The configuration files explored.  rename_old_tag is "true", "false" or
\* missing from the file; write_image_export_list is "true" or "false".
Configs ==
    {[container_images |-> SubSeq(l, 1, n), rename_old_tag |-> r,
      write_image_export_list |-> x] :
        l \in ImageLists, n \in 0..MaxImages,
        r \in {"true", "false", Absent}, x \in {"true", "false"}}

\* config = {} (the module-level default) when load_config did not return.
NoConfig == [container_images |-> <<>>, rename_old_tag |-> Absent,
             write_image_export_list |-> "false"]

\* The tag-dump program reads neither rename_old_tag nor
\* write_image_export_list, and has no --no-modify; registry_sync has no --tag
\* ("" is the falsy default of --tag).
Init ==
    /\ prog \in {"sync", "dump"}
    /\ load_result \in {"ok", "IOError", "YAMLError", "OtherError"}
    /\ config \in IF load_result = "ok"
                  THEN {c \in Configs :
                          prog = "dump" => /\ c.rename_old_tag = "false"
                                           /\ c.write_image_export_list = "false"}
                  ELSE {NoConfig}
    /\ args \in {a \in [threads : 0..MaxThreads, no_modify : BOOLEAN, tag : {"", "v9"}] :
                   /\ prog = "sync" => a.tag = ""
                   /\ prog = "dump" => ~a.no_modify
                   /\ load_result # "ok" => a.threads = MaxThreads /\ ~a.no_modify}
    /\ pcMain = "load_config"
    /\ exit_status = "running"
    /\ started = 0
    /\ put_count = 0
    /\ sync_queue = <<>>
    /\ unfinished_tasks = 0
    /\ out_queue = <<>>
    /\ pcW = [w \in Workers |-> "unstarted"]
    /\ job = [w \in Workers |-> 0]
    /\ image_info = [w \in Workers |-> NoInfo]
    /\ source = SourceBefore
    /\ pushed = FALSE
    /\ dest = DestinationBefore
    /\ calls = [j \in Jobs |-> <<>>]
    /\ gets = [j \in Jobs |-> 0]
    /\ dones = [j \in Jobs |-> 0]
    /\ any_failed = FALSE
    /\ export_list = <<>>

\* Faulty variant of AfterLoad (sensitivity test of C10): the failure of
\* load_config is not fatal.
AfterLoad_IgnoresFailure(p, result) ==
    IF p = "sync" THEN "start_workers" ELSE "put_jobs"

\* ------------------------------------------------------------ main thread
\* main(): where control goes after load_config; sys.exit(1) on IOError and
\* on a YAML scanner/parser error, and any other exception of yaml.load is
\* not caught and ends the main thread, hence the process, with status 1.
\* registry_sync starts its workers first, registry_tag_dump fills the queue
\* first.
AfterLoad(p, result) ==
    IF result # "ok" THEN "exited"
    ELSE IF p = "sync" THEN "start_workers" ELSE "put_jobs"

AfterStartWorkers(p) == IF p = "sync" THEN "put_jobs" ELSE "join"

AfterPutJobs(p) == IF p = "sync" THEN "join" ELSE "start_workers"

LoadConfig ==
    /\ pcMain = "load_config"
    /\ pcMain' = AfterLoad(prog, load_result)
    /\ exit_status' = IF pcMain' = "exited" THEN "status1" ELSE exit_status
    /\ UNCHANGED <<prog, args, config, load_result, started, put_count, sync_queue,
                   unfinished_tasks, out_queue, pcW, job, image_info, source, pushed, dest,
                   calls, gets, dones, any_failed, export_list>>

\* for i in range(args.threads): worker.start()
StartWorker ==
    /\ pcMain = "start_workers"
    /\ IF started < args.threads
       THEN /\ started' = started + 1
            /\ pcW' = [pcW EXCEPT ![started + 1] = "get"]
            /\ UNCHANGED pcMain
       ELSE /\ pcMain' = AfterStartWorkers(prog)
            /\ UNCHANGED <<started, pcW>>
    /\ UNCHANGED <<prog, args, config, load_result, exit_status, put_count, sync_queue,
                   unfinished_tasks, out_queue, job, image_info, source, pushed, dest,
                   calls, gets, dones, any_failed, export_list>>

\* Queue.put: append the item and count it as unfinished.
QueuePut(q, item) == Append(q, item)

\* for container_image in config["container_images"]: sync_queue.put(...)
PutJob ==
    /\ pcMain = "put_jobs"
    /\ IF put_count < N
       THEN /\ put_count' = put_count + 1
            /\ sync_queue' = QueuePut(sync_queue, put_count + 1)
            /\ unfinished_tasks' = unfinished_tasks + 1
            /\ UNCHANGED pcMain
       ELSE /\ pcMain' = AfterPutJobs(prog)
            /\ UNCHANGED <<put_count, sync_queue, unfinished_tasks>>
    /\ UNCHANGED <<prog, args, config, load_result, exit_status, started, out_queue,
                   pcW, job, image_info, source, pushed, dest, calls, gets, dones, any_failed,
                   export_list>>

\* Faulty variant of JoinReturns (sensitivity test of C6): join waits for an
\* empty queue instead of for the acknowledgements.
JoinReturns_OnEmptyQueue(unfinished, q) == q = <<>>

\* Faulty variant of JoinReturns (sensitivity test of C12): join does not
\* wait at all.
JoinReturns_Always(unfinished, q) == TRUE

\* Queue.join: wait while unfinished_tasks is non-zero.
JoinReturns(unfinished, q) == unfinished = 0

Join ==
    /\ pcMain = "join"
    /\ JoinReturns(unfinished_tasks, sync_queue)
    /\ pcMain' = IF prog = "sync" THEN "after_join" ELSE "exited"
    /\ exit_status' = IF prog = "sync" THEN exit_status ELSE "status0"
    /\ UNCHANGED <<prog, args, config, load_result, started, put_count, sync_queue,
                   unfinished_tasks, out_queue, pcW, job, image_info, source, pushed, dest,
                   calls, gets, dones, any_failed, export_list>>

\* write_image_list: one {imagename, digest} entry per queued image_info.
ExportEntry(info) ==
    [imagename |-> Ref(info.Name, <<info.Labels.version, info.Labels.release>>),
     digest |-> info.Digest]

\* registry_sync main() after join: the optional export list, then the end
\* of main; the interpreter exits with status 0 and the daemon threads die.
AfterJoin ==
    /\ pcMain = "after_join"
    /\ IF config.write_image_export_list = "true"
       THEN /\ export_list' = [i \in 1..Len(out_queue) |-> ExportEntry(out_queue[i])]
            /\ out_queue' = <<>>
       ELSE UNCHANGED <<export_list, out_queue>>
    /\ pcMain' = "exited"
    /\ exit_status' = "status0"
    /\ UNCHANGED <<prog, args, config, load_result, started, put_count, sync_queue,
                   unfinished_tasks, pcW, job, image_info, source, pushed, dest, calls, gets,
                   dones, any_failed>>

\* ---------------------------------------------------------- worker threads
\* One skopeo invocation, as recorded in calls: the references on its command
\* line, whether it exited with 0, and the digest it printed (inspect) or
\* transferred (copy), Absent when it failed.
Call(op, src, dst, ok, digest) ==
    [op |-> op, src |-> src, dst |-> dst, ok |-> ok, digest |-> digest]

NoRef == Ref(<<>>, <<>>)

\* Faulty variant of QueueGetRest (sensitivity test of C5): get returns the
\* head without removing it.
QueueGetRest_KeepsHead(q) == q

\* Queue.get: remove and return the head.
QueueGetItem(q) == Head(q)
QueueGetRest(q) == Tail(q)

\* A worker thread runs only while the process does: the workers are daemon
\* threads and die when main ends.
Running(w) == exit_status = "running" /\ w <= started

\* (container_image, config, no_modify) = self.sync_queue.get()
Get(w) ==
    /\ Running(w)
    /\ pcW[w] = "get"
    /\ sync_queue # <<>>
    /\ job' = [job EXCEPT ![w] = QueueGetItem(sync_queue)]
    /\ sync_queue' = QueueGetRest(sync_queue)
    /\ gets' = [gets EXCEPT ![QueueGetItem(sync_queue)] = @ + 1]
    /\ pcW' = [pcW EXCEPT ![w] = "read_image"]
    /\ UNCHANGED <<prog, args, config, load_result, pcMain, exit_status, started,
                   put_count, unfinished_tasks, out_queue, image_info, source, pushed, dest,
                   calls, dones, any_failed, export_list>>

\* Faulty variants of AfterInspect (sensitivity tests of C4 and C8): the
\* no_modify test is missing; the retag is skipped.
AfterInspect_IgnoresNoModify(no_modify, rename_old_tag) ==
    IF rename_old_tag = Absent THEN "dead"
    ELSE IF rename_old_tag = "true" THEN "rename_image_tag"
    ELSE "copy_image"

AfterInspect_SkipsRename(no_modify, rename_old_tag) ==
    IF no_modify THEN "task_done"
    ELSE IF rename_old_tag = Absent THEN "dead"
    ELSE "copy_image"

\* RegistrySyncWorker.run after read_image returned: no_modify skips the
\* destination writes; config["rename_old_tag"] raises KeyError when the key
\* is missing, which ends the thread; "true" selects the retag.
AfterInspect(no_modify, rename_old_tag) ==
    IF no_modify THEN "task_done"
    ELSE IF rename_old_tag = Absent THEN "dead"
    ELSE IF rename_old_tag = "true" THEN "rename_image_tag"
    ELSE "copy_image"

\* registry_tag_dump read_image with a tag: str + list raises TypeError
\* before skopeo is run, which ends the thread.
TagOverrideRaises(tag) == tag # ""

\* read_image: skopeo inspect; sys.exit(1) on a non-zero exit raises
\* SystemExit in the worker thread, which ends that thread only.
ReadImage(w) ==
    /\ Running(w)
    /\ pcW[w] = "read_image"
    /\ LET ref == config.container_images[job[w]] IN
       IF prog = "dump" /\ TagOverrideRaises(args.tag)
       THEN /\ pcW' = [pcW EXCEPT ![w] = "dead"]
            /\ UNCHANGED <<calls, any_failed, image_info, out_queue>>
       ELSE \E ok \in BOOLEAN :
            /\ ok => ref \in DOMAIN source
            /\ calls' = [calls EXCEPT ![job[w]] = Append(@, Call("inspect", ref, NoRef, ok,
                                      IF ok THEN source[ref] ELSE Absent))]
            /\ IF ok
               THEN /\ image_info' = [image_info EXCEPT ![w] = ImageInfoOf(source[ref])]
                    /\ out_queue' = IF prog = "sync"
                                    THEN Append(out_queue, ImageInfoOf(source[ref]))
                                    ELSE out_queue
                    /\ pcW' = [pcW EXCEPT ![w] =
                                 IF prog = "sync"
                                 THEN AfterInspect(args.no_modify, config.rename_old_tag)
                                 ELSE "task_done"]
                    /\ UNCHANGED any_failed
               ELSE /\ any_failed' = TRUE
                    /\ pcW' = [pcW EXCEPT ![w] = "dead"]
                    /\ UNCHANGED <<image_info, out_queue>>
    /\ UNCHANGED <<prog, args, config, load_result, pcMain, exit_status, started,
                   put_count, sync_queue, unfinished_tasks, job, source, pushed, dest, gets,
                   dones, export_list>>

\* rename_image_tag: namespace + Labels.name + ":" + old tag -> ... + ":" + new tag
RenameSource(info, old_image_tag) ==
    Ref(DestinationNamespace \o info.Labels.name, old_image_tag)
RenameDest(info, new_image_tag) ==
    Ref(DestinationNamespace \o info.Labels.name, new_image_tag)

\* skopeo copy between two destination tags; it fails when the old tag does
\* not exist, and may fail for any other reason.
RenameImageTag(w) ==
    /\ Running(w)
    /\ pcW[w] = "rename_image_tag"
    /\ LET src == RenameSource(image_info[w], DestinationImageTag)
           dst == RenameDest(image_info[w], TagToRename)
       IN \E ok \in BOOLEAN :
            /\ ok => dest[src] # Absent
            /\ calls' = [calls EXCEPT ![job[w]] = Append(@,
                            Call("retag", src, dst, ok, IF ok THEN dest[src] ELSE Absent))]
            /\ IF ok
               THEN /\ dest' = [dest EXCEPT ![dst] = dest[src]]
                    /\ pcW' = [pcW EXCEPT ![w] = "copy_image"]
                    /\ UNCHANGED any_failed
               ELSE /\ any_failed' = TRUE
                    /\ pcW' = [pcW EXCEPT ![w] = "dead"]
                    /\ UNCHANGED dest
    /\ UNCHANGED <<prog, args, config, load_result, pcMain, exit_status, started,
                   put_count, sync_queue, unfinished_tasks, out_queue, job, image_info,
                   source, pushed, gets, dones, export_list>>

\* Faulty variant of CopyDestTagged (sensitivity test of C9): the second copy
\* goes to the version-release tag again.
CopyDestTagged_UsesVersion(info, destination_image_tag) ==
    Ref(DestinationNamespace \o info.Labels.name,
        <<info.Labels.version, info.Labels.release>>)

\* copy_image: the source reference of both copies, and their destinations.
CopySource(info) == Ref(info.Name, <<info.Labels.version, info.Labels.release>>)
CopyDestVersioned(info) ==
    Ref(DestinationNamespace \o info.Labels.name,
        <<info.Labels.version, info.Labels.release>>)
CopyDestTagged(info, destination_image_tag) ==
    Ref(DestinationNamespace \o info.Labels.name, destination_image_tag)

\* Faulty variant of SkopeoCopy (sensitivity test of C15): a copy that exits
\* non-zero does not end the job.
SkopeoCopy_ContinuesOnFailure(w, src, dst, next) ==
    \E ok \in BOOLEAN :
        /\ ok => src \in DOMAIN source
        /\ calls' = [calls EXCEPT ![job[w]] = Append(@,
                        Call("copy", src, dst, ok, IF ok THEN source[src] ELSE Absent))]
        /\ dest' = IF ok THEN [dest EXCEPT ![dst] = source[src]] ELSE dest
        /\ pcW' = [pcW EXCEPT ![w] = next]
        /\ any_failed' = (any_failed \/ ~ok)

\* One skopeo copy from the source registry; `next` is where the worker goes
\* on success.  A non-zero exit is sys.exit(1) in the worker thread.
SkopeoCopy(w, src, dst, next) ==
    \E ok \in BOOLEAN :
        /\ ok => src \in DOMAIN source
        /\ calls' = [calls EXCEPT ![job[w]] = Append(@,
                        Call("copy", src, dst, ok, IF ok THEN source[src] ELSE Absent))]
        /\ IF ok
           THEN /\ dest' = [dest EXCEPT ![dst] = source[src]]
                /\ pcW' = [pcW EXCEPT ![w] = next]
                /\ UNCHANGED any_failed
           ELSE /\ any_failed' = TRUE
                /\ pcW' = [pcW EXCEPT ![w] = "dead"]
                /\ UNCHANGED dest

\* copy_image, first call: the image tagged version-release.
CopyImageVersioned(w) ==
    /\ Running(w)
    /\ pcW[w] = "copy_image"
    /\ SkopeoCopy(w, CopySource(image_info[w]), CopyDestVersioned(image_info[w]),
                  "copy_image_tagged")
    /\ UNCHANGED <<prog, args, config, load_result, pcMain, exit_status, started,
                   put_count, sync_queue, unfinished_tasks, out_queue, job, image_info,
                   source, pushed, gets, dones, export_list>>

\* copy_image, second call: the same source under destination_image_tag.
CopyImageTagged(w) ==
    /\ Running(w)
    /\ pcW[w] = "copy_image_tagged"
    /\ SkopeoCopy(w, CopySource(image_info[w]),
                  CopyDestTagged(image_info[w], DestinationImageTag), "task_done")
    /\ UNCHANGED <<prog, args, config, load_result, pcMain, exit_status, started,
                   put_count, sync_queue, unfinished_tasks, out_queue, job, image_info,
                   source, pushed, gets, dones, export_list>>

\* self.sync_queue.task_done(), then back to get().
TaskDone(w) ==
    /\ Running(w)
    /\ pcW[w] = "task_done"
    /\ unfinished_tasks' = unfinished_tasks - 1
    /\ dones' = [dones EXCEPT ![job[w]] = @ + 1]
    /\ job' = [job EXCEPT ![w] = 0]
    /\ image_info' = [image_info EXCEPT ![w] = NoInfo]
    /\ pcW' = [pcW EXCEPT ![w] = "get"]
    /\ UNCHANGED <<prog, args, config, load_result, pcMain, exit_status, started,
                   put_count, sync_queue, out_queue, source, pushed, dest, calls, gets,
                   any_failed, export_list>>

\* ------------------------------------------------------------ environment
\* Tags of the source registry are mutable: while the program runs, the
\* registry's owner may push a rebuild of ns/app 1.0-1, which re-points both
\* the tag the configuration names and the version-release tag.  One push
\* per run is explored, made while some worker holds the inspect result of
\* the rebuilt image and has a skopeo call ahead: at any other moment every
\* job sees the registry either wholly before or wholly after the push.
Rebuilds ==
    {[refs |-> {ImgApp1, Ref(<<"src.io/", "ns/app">>, <<"1.0", "1">>)},
      digest |-> "sha_app1r"]}

SourcePush ==
    /\ exit_status = "running"
    /\ pcMain # "load_config"
    /\ load_result = "ok"
    /\ ~pushed
    /\ \E b \in Rebuilds :
         /\ \E w \in Workers :
              /\ pcW[w] \in {"rename_image_tag", "copy_image", "copy_image_tagged"}
              /\ CopySource(image_info[w]) \in b.refs
         /\ source' = [r \in DOMAIN source |-> IF r \in b.refs THEN b.digest ELSE source[r]]
    /\ pushed' = TRUE
    /\ UNCHANGED <<prog, args, config, load_result, pcMain, exit_status, started,
                   put_count, sync_queue, unfinished_tasks, out_queue, pcW, job,
                   image_info, dest, calls, gets, dones, any_failed, export_list>>

\* ---------------------------------------------------------- specification
MainStep == LoadConfig \/ StartWorker \/ PutJob \/ Join \/ AfterJoin

WorkerStep(w) ==
    \/ Get(w)
    \/ ReadImage(w)
    \/ RenameImageTag(w)
    \/ CopyImageVersioned(w)
    \/ CopyImageTagged(w)
    \/ TaskDone(w)

Next == MainStep \/ (\E w \in Workers : WorkerStep(w)) \/ SourcePush

Spec == Init /\ [][Next]_vars

\* The threads are OS threads and every skopeo invocation returns: a thread
\* that can take a step eventually takes it.
FairSpec ==
    /\ Spec
    /\ WF_vars(MainStep)
    /\ \A w \in Workers : WF_vars(WorkerStep(w))

TypeOK ==
    /\ prog \in {"sync", "dump"}
    /\ pcMain \in {"load_config", "start_workers", "put_jobs", "join", "after_join",
                   "exited"}
    /\ exit_status \in {"running", "status0", "status1"}
    /\ started \in 0..args.threads
    /\ put_count \in 0..N
    /\ unfinished_tasks \in 0..N
    /\ \A w \in Workers :
         /\ pcW[w] \in {"unstarted", "get", "read_image", "rename_image_tag",
                        "copy_image", "copy_image_tagged", "task_done", "dead"}
         /\ job[w] \in 0..N

\* ----------------------------------------------------------------- claims
Exited0 == pcMain = "exited" /\ exit_status = "status0"

\* Jobs a live worker is still working on.
Processing(j) ==
    \E w \in Workers :
        /\ job[w] = j
        /\ pcW[w] \in {"read_image", "rename_image_tag", "copy_image",
                       "copy_image_tagged", "task_done"}

CountOp(j, op) == Cardinality({i \in 1..Len(calls[j]) : calls[j][i].op = op})

\* C1: with N configured images and a pool of at least one worker, a run in
\* which no skopeo invocation fails eventually has N jobs enqueued, N jobs
\* marked done and main completed, in both programs.
C1_AllJobsDrain ==
    (load_result = "ok" /\ args.threads >= 1) =>
        <>(\/ any_failed
           \/ /\ Exited0
              /\ put_count = N
              /\ \A j \in Jobs : dones[j] = 1)

\* The last skopeo invocation made for job j exited non-zero.
Failed(j) == calls[j] # <<>> /\ ~calls[j][Len(calls[j])].ok

\* Every invocation the worker makes for job j has been made and succeeded:
\* one inspect, then nothing more with --no-modify or in the tag dump, else
\* the optional retag and the two copies.
Succeeded(j) ==
    /\ calls[j] # <<>>
    /\ \A i \in 1..Len(calls[j]) : calls[j][i].ok
    /\ Len(calls[j]) = IF prog = "dump" \/ args.no_modify THEN 1
                       ELSE IF config.rename_old_tag = "true" THEN 4 ELSE 3

\* C2: a Job is marked done at most once, and a Job whose processing has
\* ended, successfully or with a skopeo invocation that exited non-zero, has
\* been marked done by its worker or is being marked done by it.
C2_MarkDoneExactlyOnce ==
    \A j \in Jobs :
        /\ dones[j] <= 1
        /\ (Failed(j) \/ Succeeded(j)) =>
              \/ dones[j] = 1
              \/ \E w \in Workers : job[w] = j /\ pcW[w] = "task_done"

\* C3: once a skopeo invocation (inspect, retag or copy) has exited non-zero,
\* the process eventually exits with status 1.  (That a run in which none
\* fails ends with main completed, exit status 0, is part of C1.)
C3_ExitStatus ==
    any_failed ~> (pcMain = "exited" /\ exit_status = "status1")

\* C4: with --no-modify no copy and no retag is ever invoked; each job gets
\* at most one inspect, a job whose inspect succeeded is marked done by its
\* worker, and when main completes there are N inspects and N jobs done.
C4_NoModifyOnlyInspects ==
    (prog = "sync" /\ args.no_modify) =>
        /\ \A j \in Jobs :
             /\ CountOp(j, "copy") = 0
             /\ CountOp(j, "retag") = 0
             /\ CountOp(j, "inspect") <= 1
             /\ (Len(calls[j]) = 1 /\ calls[j][1].ok) =>
                    \/ dones[j] = 1
                    \/ \E w \in Workers : job[w] = j /\ pcW[w] = "task_done"
        /\ Exited0 => \A j \in Jobs : CountOp(j, "inspect") = 1 /\ dones[j] = 1

C4_Witness ==
    /\ prog = "sync" /\ args.no_modify /\ Exited0
    /\ N = 2 /\ args.threads = 2
    /\ \A j \in Jobs : CountOp(j, "inspect") = 1 /\ dones[j] = 1

\* C5: every enqueued Job is returned by get at most once, is held by at most
\* one worker, is never back on the queue once dequeued, is inspected at most
\* once, and is always accounted for: on the queue, or held by the one worker
\* that dequeued it, or done.
C5_ExactlyOneWorkerPerJob ==
    \A j \in Jobs :
        LET queued  == {i \in 1..Len(sync_queue) : sync_queue[i] = j}
            holders == {w \in Workers : job[w] = j}
        IN /\ gets[j] <= 1
           /\ Cardinality(holders) <= 1
           /\ Cardinality(queued) <= 1
           /\ queued # {} => (gets[j] = 0 /\ holders = {} /\ j <= put_count)
           /\ CountOp(j, "inspect") <= 1
           /\ dones[j] <= gets[j]
           /\ j <= put_count =>
                Cardinality(queued) + Cardinality(holders) + dones[j] = 1
           /\ j > put_count => (gets[j] = 0 /\ holders = {})

C5_Witness ==
    /\ N = 2 /\ args.threads = 2
    /\ \A j \in Jobs : gets[j] = 1 /\ dones[j] = 1
    /\ \E j \in Jobs : calls[j] # <<>>

\* C6: main is past join only when every Job of the configuration has been
\* enqueued and marked done, none is queued and no worker is processing one.
C6_JoinReturnsOnlyWhenDrained ==
    (load_result = "ok" /\ pcMain \in {"after_join", "exited"}) =>
        /\ put_count = N
        /\ sync_queue = <<>>
        /\ unfinished_tasks = 0
        /\ \A j \in Jobs : dones[j] = 1 /\ ~Processing(j)

C6_Witness == pcMain = "after_join" /\ N = 2 /\ args.threads = 2 /\ ~args.no_modify

\* What one worker leaves in the destination registry after taking the jobs
\* i..N one after the other, in configuration order, every call succeeding.
RECURSIVE SequentialDest(_, _)
SequentialDest(i, d) ==
    IF i > N THEN d
    ELSE LET info == ImageInfoOf(SourceBefore[config.container_images[i]])
             d1 == IF config.rename_old_tag = "true"
                   THEN [d EXCEPT ![RenameDest(info, TagToRename)] =
                                      d[RenameSource(info, DestinationImageTag)]]
                   ELSE d
             d2 == [d1 EXCEPT ![CopyDestVersioned(info)] = SourceBefore[CopySource(info)]]
             d3 == [d2 EXCEPT ![CopyDestTagged(info, DestinationImageTag)] =
                                      SourceBefore[CopySource(info)]]
         IN SequentialDest(i + 1, IF args.no_modify THEN d ELSE d3)

\* The image_info values collected so far, whichever of the collector and the
\* export list holds them.
Collected ==
    {out_queue[i].Digest : i \in 1..Len(out_queue)}
        \cup {export_list[i].digest : i \in 1..Len(export_list)}

\* C7: when registry_sync has processed all images, the destination registry
\* and the set of processed images are what one worker taking the jobs in
\* configuration order leaves, whatever the pool size and interleaving (the
\* source registry being the same for both, that is, not re-pushed).
C7_FinalStateAsSequential ==
    (prog = "sync" /\ Exited0 /\ ~any_failed /\ source = SourceBefore) =>
        /\ dest = SequentialDest(1, DestinationBefore)
        /\ Collected = {SourceBefore[config.container_images[j]] : j \in Jobs}

\* C8: with rename_old_tag "true" and no --no-modify, every copy invocation
\* of a job comes after a retag invocation of the same job.
C8_RetagBeforeCopies ==
    (prog = "sync" /\ ~args.no_modify /\ config.rename_old_tag = "true") =>
        \A j \in Jobs : \A i \in 1..Len(calls[j]) :
            calls[j][i].op = "copy" =>
                \E k \in 1..(i - 1) :
                    /\ calls[j][k].op = "retag"
                    /\ calls[j][k].src.tag = DestinationImageTag
                    /\ calls[j][k].dst.tag = TagToRename

C8_Witness ==
    /\ prog = "sync" /\ ~args.no_modify /\ config.rename_old_tag = "true"
    /\ N = 2 /\ args.threads = 2
    /\ \A j \in Jobs : CountOp(j, "retag") = 1 /\ CountOp(j, "copy") = 2

\* C9: without --no-modify and with rename_old_tag "false", a job that is
\* marked done made exactly one inspect, no retag and two copies, both from
\* source Name:version-release, the first to namespace/name:version-release
\* and the second to namespace/name:destination_image_tag.
C9_OneInspectTwoCopies ==
    (prog = "sync" /\ ~args.no_modify /\ config.rename_old_tag = "false") =>
        \A j \in Jobs : dones[j] = 1 =>
            LET img  == config.container_images[j]
                info == ImageInfoOf(SourceBefore[img])
                vr   == <<info.Labels.version, info.Labels.release>>
                from == [repo |-> info.Name, tag |-> vr]
            IN [i \in 1..Len(calls[j]) |->
                   [op |-> calls[j][i].op, src |-> calls[j][i].src,
                    dst |-> calls[j][i].dst, ok |-> calls[j][i].ok]] =
                 << [op |-> "inspect", src |-> img, dst |-> NoRef, ok |-> TRUE],
                    [op |-> "copy", src |-> from, ok |-> TRUE,
                     dst |-> [repo |-> <<"dst.io/">> \o info.Labels.name, tag |-> vr]],
                    [op |-> "copy", src |-> from, ok |-> TRUE,
                     dst |-> [repo |-> <<"dst.io/">> \o info.Labels.name,
                              tag |-> <<"latest">>]] >>

C9_Witness ==
    /\ prog = "sync" /\ ~args.no_modify /\ config.rename_old_tag = "false"
    /\ N = 2 /\ args.threads = 2
    /\ \A j \in Jobs : dones[j] = 1 /\ Len(calls[j]) = 3

\* C10: when load_config fails, main goes from load_config straight to exit
\* status 1: no worker is started, nothing is enqueued and no skopeo
\* invocation is made.
C10_LoadFailureExitsFirst ==
    load_result # "ok" =>
        /\ pcMain \in {"load_config", "exited"}
        /\ pcMain = "exited" => exit_status = "status1"
        /\ pcMain = "load_config" => exit_status = "running"
        /\ started = 0 /\ \A w \in Workers : pcW[w] = "unstarted"
        /\ put_count = 0 /\ sync_queue = <<>> /\ unfinished_tasks = 0
        /\ \A j \in Jobs : calls[j] = <<>>
        /\ out_queue = <<>> /\ dest = DestinationBefore

C10_Witness ==
    load_result # "ok" /\ pcMain = "exited" /\ exit_status = "status1" /\ args.threads > 0

\* C11: every successful copy of a job, to the version-release tag and to the
\* destination tag, transfers the digest that the job's inspect printed, also
\* when a source tag is re-pushed between the inspect and the copies.
C11_CopiesTransferInspectedDigest ==
    \A j \in Jobs : \A i \in 1..Len(calls[j]) :
        (calls[j][i].op = "copy" /\ calls[j][i].ok) =>
            /\ calls[j][1].op = "inspect"
            /\ calls[j][i].digest = calls[j][1].digest

\* The export-list entry of job j, from what the job's inspect printed.
EntryOfJob(j) ==
    LET info == ImageInfoOf(calls[j][1].digest)
    IN [imagename |-> [repo |-> info.Name,
                       tag |-> <<info.Labels.version, info.Labels.release>>],
        digest |-> calls[j][1].digest]

\* C12: with write_image_export_list "true", the list is written only after
\* join; when main starts reading the collector it holds N entries and no
\* worker can add one; the list written has exactly one entry per job, in
\* some order, each built from what that job's inspect printed.
C12_ExportListOnePerImage ==
    (prog = "sync" /\ config.write_image_export_list = "true") =>
        /\ pcMain # "exited" => export_list = <<>>
        /\ pcMain = "after_join" =>
             /\ Len(out_queue) = N
             /\ \A w \in Workers : pcW[w] \in {"unstarted", "get", "dead"}
        /\ Exited0 =>
             /\ Len(export_list) = N
             /\ \A j \in Jobs : dones[j] = 1
             /\ \E f \in [1..N -> Jobs] :
                  /\ \A j \in Jobs : \E i \in 1..N : f[i] = j
                  /\ \A i \in 1..N : export_list[i] = EntryOfJob(f[i])

C12_Witness ==
    /\ prog = "sync" /\ config.write_image_export_list = "true" /\ Exited0
    /\ N = 2 /\ args.threads = 2 /\ Len(export_list) = 2
    /\ export_list[1].digest # export_list[2].digest

\* C13: once a skopeo invocation has exited non-zero, no further skopeo
\* invocation is made, for any job.
C13_FailureStopsAllInvocations == [][any_failed => calls' = calls]_vars

\* C14: with rename_old_tag "true", whenever a job's copy to
\* name:destination_image_tag succeeds, name:tag_to_rename holds afterwards
\* the image that name:destination_image_tag held just before that copy.
C14_RetagPreservesPrevious ==
    [][\A w \in Workers :
         (/\ prog = "sync" /\ config.rename_old_tag = "true"
          /\ pcW[w] = "copy_image_tagged" /\ pcW'[w] = "task_done") =>
            dest'[[repo |-> DestinationNamespace \o image_info[w].Labels.name,
                   tag |-> TagToRename]]
              = dest[[repo |-> DestinationNamespace \o image_info[w].Labels.name,
                      tag |-> DestinationImageTag]]]_vars

\* The version-release tag of job j, from what its inspect printed.
VersionTagOfJob(j) ==
    LET info == ImageInfoOf(calls[j][1].digest)
    IN <<info.Labels.version, info.Labels.release>>

\* C15: the invocations of a job are made one after the other, each only
\* after the one before succeeded: the inspect first, the copy to the
\* version-release tag only after a successful inspect, the copy to the
\* destination tag only directly after a successful copy to the
\* version-release tag; an invocation that failed is the job's last.
C15_InspectThenVersionedThenTagged ==
    \A j \in Jobs : \A i \in 1..Len(calls[j]) :
        /\ i < Len(calls[j]) => calls[j][i].ok
        /\ (calls[j][i].op = "inspect") <=> (i = 1)
        /\ calls[j][i].op = "copy" =>
             /\ calls[j][1].ok
             /\ calls[j][i].dst.tag \in {VersionTagOfJob(j), DestinationImageTag}
             /\ calls[j][i].dst.tag = DestinationImageTag =>
                  /\ calls[j][i - 1].op = "copy"
                  /\ calls[j][i - 1].dst.tag = VersionTagOfJob(j)
                  /\ calls[j][i - 1].ok
             /\ calls[j][i].dst.tag = VersionTagOfJob(j) =>
                  calls[j][i - 1].op \in {"inspect", "retag"}

C15_Witness ==
    /\ N = 2
    /\ \E j \in Jobs :
         /\ Len(calls[j]) = 3 /\ calls[j][3].ok
         /\ calls[j][3].dst.tag = DestinationImageTag
    /\ \E j \in Jobs :
         /\ Len(calls[j]) = 2 /\ ~calls[j][2].ok
         /\ calls[j][2].dst.tag = VersionTagOfJob(j)
         /\ \E w \in Workers : job[w] = j /\ pcW[w] = "dead"

\* C16 as stated: with zero workers main never gets past join.
C16_ZeroWorkersNeverPastJoin ==
    (load_result = "ok" /\ args.threads = 0) => pcMain \notin {"after_join", "exited"}

\* C16 as amended: with zero workers and at least one configured image,
\* main never gets past join and the process never exits: once in join, all
\* N jobs are unfinished and there is no worker to acknowledge one.
C16_ZeroWorkersBlockNonEmptyQueue ==
    (load_result = "ok" /\ args.threads = 0 /\ N >= 1) =>
        /\ pcMain \notin {"after_join", "exited"}
        /\ exit_status = "running"
        /\ started = 0 /\ \A w \in Workers : pcW[w] = "unstarted"
        /\ \A j \in Jobs : gets[j] = 0 /\ dones[j] = 0
        /\ pcMain = "join" => (unfinished_tasks = N /\ ~ENABLED MainStep)

C16_Witness ==
    /\ load_result = "ok" /\ args.threads = 0 /\ N = 2
    /\ pcMain = "join" /\ unfinished_tasks = 2 /\ Len(sync_queue) = 2

\* C17: when rename_old_tag is not "true" (missing included) and --no-modify
\* is off, no retag is invoked, and a job whose inspect succeeded goes on to
\* its copies: unless one of them fails, it ends marked done with two copies.
C17_RenameOldTagOptional ==
    (prog = "sync" /\ ~args.no_modify /\ config.rename_old_tag # "true") =>
        \A j \in Jobs :
            /\ CountOp(j, "retag") = 0
            /\ (calls[j] # <<>> /\ ~Failed(j) /\ ~Processing(j)) =>
                   (CountOp(j, "copy") = 2 /\ dones[j] = 1)

\* C18: in the tag dump with --tag, a job that a worker took and is through
\* with had exactly one inspect, of the image name with its tag replaced by
\* the given one, and is marked done if that inspect succeeded.
C18_TagOverrideInspectsAndDrains ==
    (prog = "dump" /\ args.tag # "") =>
        \A j \in Jobs :
            (gets[j] >= 1 /\ ~Processing(j)) =>
                /\ Len(calls[j]) = 1
                /\ calls[j][1].op = "inspect"
                /\ calls[j][1].src = [repo |-> config.container_images[j].repo,
                                      tag |-> <<args.tag>>]
                /\ calls[j][1].ok => dones[j] = 1

RECURSIVE SumUpTo(_, _)
SumUpTo(f, n) == IF n = 0 THEN 0 ELSE f[n] + SumUpTo(f, n - 1)

\* C19: no more than args.threads workers are started; the jobs taken from
\* the queue and not yet marked done are at most one per started worker, so
\* the jobs being processed never exceed the thread count; unfinished_tasks
\* is the number of puts minus the number of task_done calls, and is never
\* negative.
C19_BoundedByPoolSize ==
    /\ started <= args.threads
    /\ SumUpTo(gets, N) - SumUpTo(dones, N) <= started
    /\ SumUpTo(gets, N) - SumUpTo(dones, N) = Cardinality({w \in Workers : job[w] # 0})
    /\ Cardinality({j \in Jobs : Processing(j)}) <= args.threads
    /\ unfinished_tasks = put_count - SumUpTo(dones, N)
    /\ unfinished_tasks >= 0

C19_Witness ==
    /\ args.threads = 2 /\ N = 2
    /\ Cardinality({j \in Jobs : Processing(j)}) = 2
    /\ unfinished_tasks = 2

====
